---- MODULE Spec2Model ----
(***************************************************************************)
(* Model of BoomerBusinessFinder (src/business_app15112025.py): the        *)
(* financial classifier (has_financial_data, has_balance_sheet_data), the  *)
(* detail fetch with its retry loop, the paginated search traversal, the   *)
(* run orchestrator and the checkpoint store.                              *)
(***************************************************************************)
EXTENDS Integers, Sequences, FiniteSets, TLC

(***************************************************************************)
(* JSON / Python values, tagged by type.  None is JNull.  A dict is a      *)
(* function whose DOMAIN is the set of keys present.                       *)
(***************************************************************************)
JNull == [t |-> "null"]

JNum(n) == [t |-> "num", v |-> n]

JStr(s) == [t |-> "str", v |-> s]

JList(s) == [t |-> "list", v |-> s]

JDict(f) == [t |-> "dict", v |-> f]

EmptyFcn == [k \in {} |-> JNull]

\* Python truthiness: `if x`, `not x`
Truthy(x) ==
    CASE x.t = "null" -> FALSE
      [] x.t = "num"  -> x.v # 0
      [] x.t = "str"  -> x.v # ""
      [] x.t = "list" -> Len(x.v) > 0
      [] x.t = "dict" -> DOMAIN x.v # {}

Max(a, b) == IF a >= b THEN a ELSE b

(***************************************************************************)
(* Stage A: has_financial_data                                             *)
(***************************************************************************)
KnownKeys == {"financials", "accounts", "latest_accounts", "financial_summary"}

\* mutant of KeyHasValue: presence of the key is enough
KeyHasValue_PresenceOnly(company_details, k) ==
    k \in DOMAIN company_details.v

\* `'k' in company_details and company_details['k']`
KeyHasValue(company_details, k) ==
    k \in DOMAIN company_details.v /\ Truthy(company_details.v[k])

\* returns (has_data, financial_data if has_data else None)
has_financial_data(company_details) ==
    IF ~Truthy(company_details)
    THEN [has |-> FALSE, data |-> JNull]
    ELSE LET found == {k \in KnownKeys : KeyHasValue(company_details, k)}
             financial_data == JDict([k \in found |-> company_details.v[k]])
             has_data == Cardinality(found) > 0
         IN  [has |-> has_data,
              data |-> IF has_data THEN financial_data ELSE JNull]

(***************************************************************************)
(* Stage B: has_balance_sheet_data                                         *)
(***************************************************************************)
AssetInfo0 ==
    [has_current_assets |-> FALSE, has_fixed_assets |-> FALSE,
     current_assets_entries |-> 0, fixed_assets_entries |-> 0]

\* mutant of IsAssetList: requires a non-null element
IsAssetList_NeedsValue(m, a) ==
    /\ a \in DOMAIN m.v
    /\ m.v[a].t = "list"
    /\ \E i \in 1..Len(m.v[a].v) : m.v[a].v[i] # JNull

\* `'a' in m` and `ca is not None and isinstance(ca, list) and len(ca) > 0`
IsAssetList(m, a) ==
    /\ a \in DOMAIN m.v
    /\ m.v[a] # JNull
    /\ m.v[a].t = "list"
    /\ Len(m.v[a].v) > 0

AssetLen(m, a) == Len(m.v[a].v)

\* the two checks of a mapping whose entry count is assigned: `= len(ca)`
MarkAssign(info, m) ==
    LET i1 == IF IsAssetList(m, "current_assets")
              THEN [info EXCEPT !.has_current_assets = TRUE,
                                !.current_assets_entries = AssetLen(m, "current_assets")]
              ELSE info
    IN  IF IsAssetList(m, "fixed_assets")
        THEN [i1 EXCEPT !.has_fixed_assets = TRUE,
                        !.fixed_assets_entries = AssetLen(m, "fixed_assets")]
        ELSE i1

\* the two checks of a list item: `= max(entries, len(ca))`
MarkMax(info, m) ==
    LET i1 == IF IsAssetList(m, "current_assets")
              THEN [info EXCEPT !.has_current_assets = TRUE,
                                !.current_assets_entries =
                                    Max(@, AssetLen(m, "current_assets"))]
              ELSE info
    IN  IF IsAssetList(m, "fixed_assets")
        THEN [i1 EXCEPT !.has_fixed_assets = TRUE,
                        !.fixed_assets_entries =
                            Max(@, AssetLen(m, "fixed_assets"))]
        ELSE i1

\* `'current_assets' in fin_summary` on a str is a substring test; the strings
\* of the model contain an asset key only by being equal to it
StrContains(s, k) == s = k

\* `'a' in fin_summary` followed by `fin_summary['a']` raises TypeError when
\* fin_summary is None or a number (not iterable) or a str holding the key
\* (str indices must be integers); on a list it is an element test
SummaryKeyRaises(fs, a) ==
    \/ fs.t \in {"null", "num"}
    \/ fs.t = "str" /\ StrContains(fs.v, a)

SummaryRaises(financial_data) ==
    /\ "financial_summary" \in DOMAIN financial_data.v
    /\ \E a \in {"current_assets", "fixed_assets"} :
          SummaryKeyRaises(financial_data.v["financial_summary"], a)

\* the financial_summary block
ScanSummary(info, financial_data) ==
    IF "financial_summary" \in DOMAIN financial_data.v
       /\ financial_data.v["financial_summary"].t = "dict"
    THEN MarkAssign(info, financial_data.v["financial_summary"])
    ELSE info

RECURSIVE ScanItems(_, _)
\* `for item in data_section: if isinstance(item, dict): ...`
ScanItems(info, items) ==
    IF items = <<>> THEN info
    ELSE LET item == Head(items)
             next == IF item.t = "dict" THEN MarkMax(info, item) ELSE info
         IN  ScanItems(next, Tail(items))

\* `elif isinstance(data_section, dict)`
ScanMapping(info, data_section) == MarkAssign(info, data_section)

\* the body of `for key in ['accounts', 'latest_accounts', 'financials']`
ScanSection(info, financial_data, key) ==
    IF key \in DOMAIN financial_data.v /\ Truthy(financial_data.v[key])
    THEN LET data_section == financial_data.v[key]
         IN  CASE data_section.t = "list" -> ScanItems(info, data_section.v)
               [] data_section.t = "dict" -> ScanMapping(info, data_section)
               [] OTHER -> info
    ELSE info

OtherSections == <<"accounts", "latest_accounts", "financials">>

RECURSIVE ScanSections(_, _, _)
ScanSections(info, financial_data, keys) ==
    IF keys = <<>> THEN info
    ELSE ScanSections(ScanSection(info, financial_data, Head(keys)),
                      financial_data, Tail(keys))

\* mutant of AcceptedBy: both asset types are required
AcceptedBy_Both(asset_info) ==
    asset_info.has_current_assets /\ asset_info.has_fixed_assets

\* `has_data = asset_info["has_current_assets"] or asset_info["has_fixed_assets"]`
AcceptedBy(asset_info) ==
    asset_info.has_current_assets \/ asset_info.has_fixed_assets

\* returns (has_data, asset_info if has_data else None), or raises;
\* marks is asset_info as it stands at the return
has_balance_sheet_data(financial_data) ==
    IF ~Truthy(financial_data)
    THEN [raised |-> FALSE, has |-> FALSE, info |-> JNull, marks |-> AssetInfo0]
    ELSE IF SummaryRaises(financial_data)
    THEN [raised |-> TRUE, has |-> FALSE, info |-> JNull, marks |-> AssetInfo0]
    ELSE LET asset_info == ScanSections(ScanSummary(AssetInfo0, financial_data),
                                        financial_data, OtherSections)
             has_data == AcceptedBy(asset_info)
         IN  [raised |-> FALSE, has |-> has_data,
              info |-> IF has_data THEN asset_info ELSE JNull,
              marks |-> asset_info]

(***************************************************************************)
(* Bounded universe of detail records for the classifier.                  *)
(***************************************************************************)
MaxSeqLen == 3

MaxSections == 2

AssetKeys == {"current_assets", "fixed_assets"}

NullSeq(n) == JList([i \in 1..n |-> JNull])

\* values found under an asset key: null, a scalar, sequences of nulls of
\* every length up to MaxSeqLen (the empty one included), one of a number
AssetVals ==
    {JNull, JNum(7), JList(<<JNum(7)>>)} \cup {NullSeq(n) : n \in 0..MaxSeqLen}

NonEmptyNullSeqs == {NullSeq(n) : n \in 1..MaxSeqLen}

\* period mappings: empty, without asset keys, with one asset key of any
\* value, with both asset keys holding sequences of nulls
PeriodMaps ==
    {JDict(EmptyFcn), JDict([k \in {"date"} |-> JStr("2020")])}
    \cup {JDict([k \in {"current_assets"} |-> x]) : x \in AssetVals}
    \cup {JDict([k \in {"fixed_assets"} |-> x]) : x \in AssetVals}
    \cup {JDict([k \in AssetKeys |->
                    IF k = "current_assets" THEN x ELSE NullSeq(1)]) :
            x \in NonEmptyNullSeqs}

CurrentOnlyMaps ==
    {JDict([k \in {"current_assets"} |-> x]) : x \in NonEmptyNullSeqs}

FixedOnlyMaps ==
    {JDict([k \in {"fixed_assets"} |-> x]) : x \in NonEmptyNullSeqs}

\* lists of periods: empty, one item (a scalar or a mapping), two mappings
PeriodLists ==
    {JList(<<>>), JList(<<JNum(7)>>)}
    \cup {JList(<<p>>) : p \in CurrentOnlyMaps \cup FixedOnlyMaps}
    \cup {JList(<<p, q>>) : p \in CurrentOnlyMaps, q \in CurrentOnlyMaps}

Scalars == {JNull, JNum(0), JNum(7), JStr("n/a"), JStr("current_assets")}

SectionVals == Scalars \cup PeriodMaps \cup PeriodLists

\* the known keys a detail record holds: at most MaxSections of them
SectionSets == {T \in SUBSET KnownKeys : Cardinality(T) <= MaxSections}

(***************************************************************************)
(* The finder object, the run's control state and the checkpoint file.     *)
(***************************************************************************)
VARIABLES
    self,       \* the BoomerBusinessFinder's fields
    pc,         \* where the process is
    loc,        \* locals of run_search / search_companies / fetch_company_details
    ckpt,       \* the checkpoint file on disk
    attempts,   \* HTTP attempts issued so far (requests.get calls)
    saved,      \* the fields as they stood at the last save that wrote the
                \* file, and how the last save_checkpoint ended
    cl          \* the classifier applied to one detail record

vars == <<self, pc, loc, ckpt, attempts, saved, cl>>

\* scaled budgets and plan (the program: 500 requests, 25 per industry,
\* 50 in total, a checkpoint every 10 results, up to 30 companies a page)
MaxRequests == 4

\* HTTP calls the registry answers in the runs explored
MaxAttempts == 5

MaxQuota == 2

CheckpointEvery == 2

MaxPageLen == 2

max_retries == 2

max_pages == 3

Industries == <<"Accounting", "ATM_Vending">>

Keywords(industry_category) ==
    IF industry_category = "Accounting"
    THEN <<"accounting", "bookkeeping">>
    ELSE <<"vending">>

Modes == {"test", "production"}

\* __init__: the fields of a new finder; None is 0 for the two limits
NewFinder(mode, target, total) ==
    [mode |-> mode,
     target_per_industry |-> IF mode = "test" THEN target ELSE 0,
     max_total_companies |-> IF mode = "test" THEN total ELSE 0,
     results |-> <<>>,
     request_count |-> 0,
     max_requests |-> MaxRequests,
     industry_counts |-> [i \in {} |-> 0],
     companies_checked |-> 0,
     companies_with_financials |-> 0,
     companies_without_financials |-> 0,
     companies_with_balance_sheet |-> 0,
     companies_without_balance_sheet |-> 0,
     errors |-> <<>>]

\* the finders main can build: the production one, and test-mode ones whose
\* limits are scaled, one of the two at the top of the range
Finders ==
    {NewFinder("production", 0, 0)}
    \cup {NewFinder("test", n, MaxQuota) : n \in 1..MaxQuota}
    \cup {NewFinder("test", MaxQuota, m) : m \in 1..MaxQuota}

\* the sleeps, in half seconds: `time.sleep(1.5)` after a detail fetch,
\* `time.sleep(2)` before the next page, `time.sleep(60)` after a search 429
detail_delay == 3

search_delay == 4

rate_limit_wait == 120

Min(a, b) == IF a <= b THEN a ELSE b

\* the pacing of the process: the kind of the last requests.get ("": none
\* yet), the time slept since it and since the last search request, both
\* counted up to search_delay
NoPace == [last |-> "", slept |-> 0, since_search |-> 0]

\* requests.get is called
Requested(pace, kind) ==
    [last |-> kind, slept |-> 0,
     since_search |-> IF kind = "search" THEN 0 ELSE pace.since_search]

\* time.sleep(d / 2)
Slept(pace, d) ==
    [pace EXCEPT !.slept = Min(@ + d, search_delay),
                 !.since_search = Min(@ + d, search_delay)]

\* no item in hand
NoCompany == [jurisdiction_code |-> "", company_number |-> ""]

\* the locals; of the page in hand the state keeps the number of items and
\* the item the loop is at: the items are drawn as the loop reaches them.
\* search_status and response are the outcome of the last search and detail
\* request; page_tries counts the requests issued for the page in hand;
\* loaded tells whether main loaded a checkpoint; hist lists the attempts of
\* the fetch in hand (reply and sleep), rc0 is request_count as the fetch
\* began; pace is the pacing of the requests
NoLoc ==
    [ind |-> 1, kw |-> 1, page |-> 0, page_tries |-> 0, search_status |-> "",
     n_companies |-> 0, total_pages |-> 0,
     idx |-> 0, company |-> NoCompany, retry_count |-> 0, response |-> "",
     company_details |-> JNull, loaded |-> FALSE,
     hist |-> <<>>, rc0 |-> 0, pace |-> NoPace]

NoFile == [kind |-> "missing"]

NoClassifier == [pc |-> "off"]

\* `self.industry_counts.get(industry_category, 0)`
IndustryCount(s, industry_category) ==
    IF industry_category \in DOMAIN s.industry_counts
    THEN s.industry_counts[industry_category]
    ELSE 0

\* mutant of TotalLimitReached: `>` for `>=`
TotalLimitReached_Strict(s) ==
    s.max_total_companies # 0 /\ Len(s.results) > s.max_total_companies

\* `self.max_total_companies and len(self.results) >= self.max_total_companies`
TotalLimitReached(s) ==
    s.max_total_companies # 0 /\ Len(s.results) >= s.max_total_companies

\* `if self.mode == "test": ... if current_count >= self.target_per_industry`
IndustryTargetReached(s, industry_category) ==
    s.mode = "test"
    /\ IndustryCount(s, industry_category) >= s.target_per_industry

\* mutant of BudgetReached: `>` for `>=`
BudgetReached_Strict(s) == s.request_count > s.max_requests

\* `self.request_count >= self.max_requests`
BudgetReached(s) == s.request_count >= s.max_requests

CurIndustry == Industries[loc.ind]

CurKeyword == Keywords(CurIndustry)[loc.kw]

(***************************************************************************)
(* Checkpoint store                                                        *)
(***************************************************************************)
\* the JSON object save_checkpoint builds; json.dump / json.load keep str
\* keys, ints, strs and lists as they are
CheckpointData(s) ==
    [timestamp |-> "now",
     mode |-> s.mode,
     results_count |-> Len(s.results),
     request_count |-> s.request_count,
     companies_checked |-> s.companies_checked,
     companies_with_financials |-> s.companies_with_financials,
     companies_without_financials |-> s.companies_without_financials,
     companies_with_balance_sheet |-> s.companies_with_balance_sheet,
     companies_without_balance_sheet |-> s.companies_without_balance_sheet,
     industry_counts |-> s.industry_counts,
     results |-> s.results]

\* how a save ends: the file is written; open() fails and the file stays as
\* it was; json.dump fails after open() truncated the file
SaveOutcomes == {"written", "open_failed", "dump_failed"}

\* mutant of save_checkpoint: the record appended last is not written
save_checkpoint_Stale(s, file, outcome) ==
    CASE outcome = "written" ->
             [kind |-> "json", isdict |-> TRUE,
              data |-> [CheckpointData(s) EXCEPT
                           !.results = SubSeq(s.results, 1,
                                              Len(s.results) - 1)]]
      [] outcome = "open_failed" -> file
      [] outcome = "dump_failed" -> [kind |-> "malformed"]

\* save_checkpoint: the file after the call (the exception is swallowed)
save_checkpoint(s, file, outcome) ==
    CASE outcome = "written"     -> [kind |-> "json", isdict |-> TRUE,
                                     data |-> CheckpointData(s)]
      [] outcome = "open_failed" -> file
      [] outcome = "dump_failed" -> [kind |-> "malformed"]

\* `checkpoint_data.get(k, default)`
Get(d, k, default) == IF k \in DOMAIN d THEN d[k] ELSE default

\* mutant of LoadSucceeds: any parsable JSON is taken
LoadSucceeds_AnyJson(file) == file.kind = "json"

\* open() and json.load() succeed and the value has a .get
LoadSucceeds(file) == file.kind = "json" /\ file.isdict

\* mutant of load_checkpoint: request_count is read from results_count
load_checkpoint_WrongKey(s, file) ==
    IF ~LoadSucceeds(file) THEN s
    ELSE [s EXCEPT
            !.results = Get(file.data, "results", <<>>),
            !.request_count = Get(file.data, "results_count", 0),
            !.companies_checked = Get(file.data, "companies_checked", 0),
            !.companies_with_financials =
                Get(file.data, "companies_with_financials", 0),
            !.companies_without_financials =
                Get(file.data, "companies_without_financials", 0),
            !.companies_with_balance_sheet =
                Get(file.data, "companies_with_balance_sheet", 0),
            !.companies_without_balance_sheet =
                Get(file.data, "companies_without_balance_sheet", 0),
            !.industry_counts =
                Get(file.data, "industry_counts", [i \in {} |-> 0])]

\* load_checkpoint: the fields after the call; it returns LoadSucceeds(file)
load_checkpoint(s, file) ==
    IF ~LoadSucceeds(file) THEN s
    ELSE [s EXCEPT
            !.results = Get(file.data, "results", <<>>),
            !.request_count = Get(file.data, "request_count", 0),
            !.companies_checked = Get(file.data, "companies_checked", 0),
            !.companies_with_financials =
                Get(file.data, "companies_with_financials", 0),
            !.companies_without_financials =
                Get(file.data, "companies_without_financials", 0),
            !.companies_with_balance_sheet =
                Get(file.data, "companies_with_balance_sheet", 0),
            !.companies_without_balance_sheet =
                Get(file.data, "companies_without_balance_sheet", 0),
            !.industry_counts =
                Get(file.data, "industry_counts", [i \in {} |-> 0])]

(***************************************************************************)
(* Replies of the registry API                                             *)
(***************************************************************************)
Companies == {"c1"}

\* a search-result item's company; an absent number reads as ''
Summary(number) == [jurisdiction_code |-> "gb", company_number |-> number]

\* well-formed items, an item without number, an item without jurisdiction
Summaries ==
    {Summary(c) : c \in Companies \cup {""}}
    \cup {[jurisdiction_code |-> "", company_number |-> c] : c \in Companies}

TotalPagesVals == {1, max_pages + 1}

\* what one search request can meet
SearchReplies ==
    {[kind |-> k] : k \in {"exception", "429", "500", "malformed", "empty"}}
    \cup {[kind |-> "page", n_companies |-> n, total_pages |-> tp] :
             n \in 1..MaxPageLen, tp \in TotalPagesVals}

\* detail payloads: no financial key; a financial key holding {}; financials
\* without asset keys; a financial_summary with current_assets of nulls; a
\* financial_summary that is a number
CrawlDetails ==
    {JDict(EmptyFcn),
     JDict([k \in {"accounts"} |-> JDict(EmptyFcn)]),
     JDict([k \in {"accounts"} |-> JDict([j \in {"date"} |-> JStr("2020")])]),
     JDict([k \in {"financial_summary"} |->
                JDict([j \in {"current_assets"} |-> NullSeq(MaxSeqLen)])]),
     JDict([k \in {"financial_summary"} |-> JNum(7)])}

\* what one detail request can meet
DetailReplies ==
    {[kind |-> k] : k \in {"429", "404", "500", "timeout", "exception"}}
    \cup {[kind |-> "200", company |-> d] : d \in CrawlDetails}

\* an entry of self.errors (timestamp and message left out)
ErrorRecord(error_type, company) ==
    [error_type |-> error_type,
     jurisdiction |-> company.jurisdiction_code,
     company_number |-> company.company_number]

\* extract_company_info plus the balance-sheet metadata added by the caller
\* (the name, address, officers and serialized payload columns left out)
CompanyInfo(company, keyword, industry_category, asset_info) ==
    [Industry_Category |-> industry_category,
     Search_Keyword |-> keyword,
     Company_Number |-> company.company_number,
     Jurisdiction |-> company.jurisdiction_code,
     Has_Current_Assets |-> IF asset_info.has_current_assets THEN "Yes" ELSE "No",
     Has_Fixed_Assets |-> IF asset_info.has_fixed_assets THEN "Yes" ELSE "No",
     Current_Assets_Years |-> asset_info.current_assets_entries,
     Fixed_Assets_Years |-> asset_info.fixed_assets_entries]

(***************************************************************************)
(* main: a new finder, an optional load_checkpoint, then run_search        *)
(***************************************************************************)
NotSaved == [set |-> FALSE, last |-> ""]

\* a checkpoint written by an earlier test-mode run with one accepted company
PriorFinder ==
    [NewFinder("test", 1, 1) EXCEPT
        !.results = <<CompanyInfo(Summary("c1"), "accounting", "Accounting",
                        [AssetInfo0 EXCEPT !.has_current_assets = TRUE,
                                           !.current_assets_entries = 1])>>,
        !.request_count = 2,
        !.companies_checked = 1,
        !.companies_with_financials = 1,
        !.companies_with_balance_sheet = 1,
        !.industry_counts = [i \in {"Accounting"} |-> 1]]

\* files main can be told to load: missing, unparsable, a JSON list, a full
\* checkpoint
PriorFiles ==
    {NoFile,
     [kind |-> "malformed"],
     [kind |-> "json", isdict |-> FALSE, data |-> EmptyFcn],
     [kind |-> "json", isdict |-> TRUE, data |-> CheckpointData(PriorFinder)]}

Init ==
    /\ self \in Finders
    /\ pc = "main"
    /\ loc = NoLoc
    /\ ckpt = NoFile
    /\ attempts = 0
    /\ saved = NotSaved
    /\ cl = NoClassifier

\* no checkpoint selected: run_search starts on the new finder
StartFresh ==
    /\ pc = "main"
    /\ pc' = "keyword"
    /\ UNCHANGED <<self, loc, ckpt, attempts, saved, cl>>

\* `if finder.load_checkpoint(checkpoint_file)`, then run_search
LoadCheckpoint(file) ==
    /\ pc = "main"
    /\ self' = load_checkpoint(self, file)
    /\ loc' = [loc EXCEPT !.loaded = LoadSucceeds(file)]
    /\ pc' = "keyword"
    /\ UNCHANGED <<ckpt, attempts, saved, cl>>

(***************************************************************************)
(* run_search                                                              *)
(***************************************************************************)
\* the head of `for keyword in keywords` and the three checks before the call
RunKeyword ==
    /\ pc = "keyword"
    /\ IF \/ loc.kw > Len(Keywords(CurIndustry))
          \/ BudgetReached(self)
          \/ TotalLimitReached(self)
          \/ IndustryTargetReached(self, CurIndustry)
       THEN pc' = "industry_end"
       ELSE pc' = "search"
    /\ loc' = [loc EXCEPT !.search_status = ""]
    /\ UNCHANGED <<self, ckpt, attempts, saved, cl>>

\* after the keyword loop: the global checks, then the next industry
IndustryEnd ==
    /\ pc = "industry_end"
    /\ IF \/ BudgetReached(self)
          \/ TotalLimitReached(self)
          \/ loc.ind = Len(Industries)
       THEN pc' = "final" /\ UNCHANGED loc
       ELSE pc' = "keyword" /\ loc' = [loc EXCEPT !.ind = @ + 1, !.kw = 1]
    /\ UNCHANGED <<self, ckpt, attempts, saved, cl>>

\* the snapshot kept of a save that wrote the file
SavedAfter(s, outcome) ==
    IF outcome = "written"
    THEN [set |-> TRUE, last |-> outcome, s |-> s]
    ELSE [saved EXCEPT !.last = outcome]

\* the final save_checkpoint, then `return self.results`
FinalSave(outcome) ==
    /\ pc = "final"
    /\ ckpt' = save_checkpoint(self, ckpt, outcome)
    /\ saved' = SavedAfter(self, outcome)
    /\ pc' = "done"
    /\ UNCHANGED <<self, loc, attempts, cl>>

(***************************************************************************)
(* search_companies                                                        *)
(***************************************************************************)
\* mutant of ReturnWith: the keyword loop does not advance
ReturnWith_SameKeyword(status) ==
    /\ pc' = "keyword"
    /\ loc' = [loc EXCEPT !.page = 0, !.page_tries = 0,
                          !.search_status = status, !.n_companies = 0,
                          !.total_pages = 0, !.idx = 0,
                          !.company = NoCompany,
                          !.pace = IF status = "" THEN @
                                   ELSE Requested(@, "search")]

\* `return companies_found`: back in run_search, at the next keyword; status
\* is the outcome of the page request that ended the call, issued on this
\* step ("": the call ended without one)
ReturnWith(status) ==
    /\ pc' = "keyword"
    /\ loc' = [loc EXCEPT !.kw = @ + 1, !.page = 0, !.page_tries = 0,
                          !.search_status = status, !.n_companies = 0,
                          !.total_pages = 0, !.idx = 0,
                          !.company = NoCompany,
                          !.pace = IF status = "" THEN @
                                   ELSE Requested(@, "search")]

ReturnToRun == ReturnWith("")

\* the two checks at entry, then `page = 1`
SearchEntry ==
    /\ pc = "search"
    /\ IF \/ IndustryTargetReached(self, CurIndustry)
          \/ TotalLimitReached(self)
       THEN ReturnToRun
       ELSE pc' = "page" /\ loc' = [loc EXCEPT !.page = 1]
    /\ UNCHANGED <<self, ckpt, attempts, saved, cl>>

\* mutant of CanRequestPage: the request budget is not tested
CanRequestPage_NoBudget ==
    /\ loc.page <= max_pages
    /\ ~TotalLimitReached(self)
    /\ ~IndustryTargetReached(self, CurIndustry)

\* the while condition and the checks before each request
CanRequestPage ==
    /\ loc.page <= max_pages
    /\ self.request_count < self.max_requests
    /\ ~TotalLimitReached(self)
    /\ ~IndustryTargetReached(self, CurIndustry)

\* the loop ends or breaks without a request
PageExit ==
    /\ pc = "page"
    /\ ~CanRequestPage
    /\ ReturnToRun
    /\ UNCHANGED <<self, ckpt, attempts, saved, cl>>

\* mutant of SearchCounted: a 200 without companies is not counted
SearchCounted_NotEmptyPage(kind) ==
    kind \notin {"exception", "malformed", "empty"}

\* mutant of SearchCounted: a search answered 429 is not counted
SearchCounted_Not429(kind) == kind \notin {"exception", "429"}

\* `response = requests.get(...)` then `self.request_count += 1`: an attempt
\* that raises leaves the counter as it was
SearchCounted(kind) == kind # "exception"

\* one requests.get of a search page and the branch its reply takes
SearchRequest(reply) ==
    /\ pc = "page"
    /\ CanRequestPage
    /\ attempts < MaxAttempts
    /\ attempts' = attempts + 1
    /\ IF SearchCounted(reply.kind)
       THEN self' = [self EXCEPT !.request_count = @ + 1]
       ELSE UNCHANGED self
    /\ CASE reply.kind = "page" ->
                /\ pc' = "item"
                /\ loc' = [loc EXCEPT !.page_tries = @ + 1,
                                      !.search_status = "200",
                                      !.n_companies = reply.n_companies,
                                      !.total_pages = reply.total_pages,
                                      !.idx = 1,
                                      !.pace = Requested(@, "search")]
         [] reply.kind = "429" ->
                /\ pc' = "page"
                /\ loc' = [loc EXCEPT !.page_tries = @ + 1,
                                      !.search_status = "429",
                                      !.pace = Slept(Requested(@, "search"),
                                                     rate_limit_wait)]
         [] OTHER -> ReturnWith(reply.kind)
    /\ UNCHANGED <<ckpt, saved, cl>>

\* mutant of ItemMayStart: the industry target is checked per page only
ItemMayStart_NoIndustryCheck(s, industry_category) ==
    ~TotalLimitReached(s)

\* the limit checks before an item
ItemMayStart(s, industry_category) ==
    /\ ~TotalLimitReached(s)
    /\ ~IndustryTargetReached(s, industry_category)

\* mutant of LastPage: `>` for `>=`
LastPage_Strict(page, total_pages) == page > total_pages

\* `if page >= total_pages`
LastPage(page, total_pages) == page >= total_pages

\* the item loop ends (or breaks on a limit); the checks after the page
ItemLoopEnd ==
    /\ pc = "item"
    /\ \/ loc.idx > loc.n_companies
       \/ ~ItemMayStart(self, CurIndustry)
    /\ IF \/ TotalLimitReached(self)
          \/ IndustryTargetReached(self, CurIndustry)
          \/ LastPage(loc.page, loc.total_pages)
       THEN ReturnToRun
       ELSE /\ pc' = "page"
            /\ loc' = [loc EXCEPT !.page = @ + 1, !.page_tries = 0,
                                  !.search_status = "", !.n_companies = 0,
                                  !.total_pages = 0, !.idx = 0,
                                  !.company = NoCompany,
                                  !.pace = Slept(@, search_delay)]
    /\ UNCHANGED <<self, ckpt, attempts, saved, cl>>

\* mutant of MalformedItem: only the jurisdiction is tested
MalformedItem_OnlyJurisdiction(company) == company.jurisdiction_code = ""

\* `if not jurisdiction or not company_number`
MalformedItem(company) ==
    company.jurisdiction_code = "" \/ company.company_number = ""

\* the item at idx is `company`: skipped, or counted and fetched
ItemStart(company) ==
    /\ pc = "item"
    /\ loc.idx <= loc.n_companies
    /\ ItemMayStart(self, CurIndustry)
    /\ IF MalformedItem(company)
       THEN /\ pc' = "item"
            /\ loc' = [loc EXCEPT !.idx = @ + 1, !.company = NoCompany]
            /\ UNCHANGED self
       ELSE /\ pc' = "fetch"
            /\ loc' = [loc EXCEPT !.company = company, !.retry_count = 0,
                                  !.response = "", !.hist = <<>>,
                                  !.rc0 = self.request_count]
            /\ self' = [self EXCEPT !.companies_checked = @ + 1]
    /\ UNCHANGED <<ckpt, attempts, saved, cl>>

(***************************************************************************)
(* fetch_company_details                                                   *)
(***************************************************************************)
\* mutant of DetailCounted: only an answered 200 is counted
DetailCounted_Only200(kind) == kind = "200"

\* `response = requests.get(...)` then `self.request_count += 1`: an attempt
\* that raises (timeout, transport error) leaves the counter as it was
DetailCounted(kind) == kind \notin {"timeout", "exception"}

\* mutant of RetryAfter429: the retry counter is tested before its increment
RetryAfter429_BeforeIncrement(retry_count) == retry_count <= max_retries

\* after a 429, `retry_count += 1; continue`: the loop goes on while
\* `retry_count <= max_retries`
RetryAfter429(retry_count) == retry_count + 1 <= max_retries

\* mutant of RetryAfterError: one retry fewer
RetryAfterError_OneFewer(retry_count) == retry_count < max_retries - 1

\* `if retry_count < max_retries` for another status or a timeout
RetryAfterError(retry_count) == retry_count < max_retries

\* `backoff_time = 2`
backoff_time == 2

RECURSIVE Pow2(_)
Pow2(n) == IF n = 0 THEN 1 ELSE 2 * Pow2(n - 1)

\* the time.sleep of the attempt's branch (0: the branch does not sleep):
\* `backoff_time * (2 ** retry_count)` after a 429, whether or not the loop
\* goes round again; `backoff_time` before the retry of another status or a
\* timeout
SleepAfter(kind, retry_count) ==
    CASE kind = "429" -> backoff_time * Pow2(retry_count)
      [] kind \in {"500", "timeout"} /\ retry_count < max_retries -> backoff_time
      [] OTHER -> 0

\* mutant of LogsError: only a 404 is logged
LogsError_Only404(kind, retry_count) == kind = "404"

\* whether this attempt appends to self.errors before returning None
LogsError(kind, retry_count) ==
    \/ kind \in {"404", "exception"}
    \/ kind \in {"500", "timeout"} /\ ~RetryAfterError(retry_count)

\* mutant of ErrorType: a transport exception is logged as a timeout
ErrorType_ExceptionAsTimeout(kind) ==
    CASE kind = "404"       -> "404_Not_Found"
      [] kind = "500"       -> "HTTP_500"
      [] kind = "timeout"   -> "Timeout"
      [] kind = "exception" -> "Timeout"

\* the error_type of the record appended for each failure
ErrorType(kind) ==
    CASE kind = "404"       -> "404_Not_Found"
      [] kind = "500"       -> "HTTP_500"
      [] kind = "timeout"   -> "Timeout"
      [] kind = "exception" -> "Request_Exception"

\* mutant of Retries: a 404 is retried like another status
Retries_Also404(kind, retry_count) ==
    \/ kind = "429" /\ RetryAfter429(retry_count)
    \/ kind \in {"500", "timeout", "404"} /\ RetryAfterError(retry_count)

\* whether the loop goes round again after this attempt
Retries(kind, retry_count) ==
    \/ kind = "429" /\ RetryAfter429(retry_count)
    \/ kind \in {"500", "timeout"} /\ RetryAfterError(retry_count)

\* one requests.get of the detail URL and the branch its reply takes
FetchAttempt(reply) ==
    /\ pc = "fetch"
    /\ attempts < MaxAttempts
    /\ attempts' = attempts + 1
    /\ LET company == loc.company
           counted == IF DetailCounted(reply.kind)
                      THEN [self EXCEPT !.request_count = @ + 1]
                      ELSE self
           attempt == [kind |-> reply.kind,
                       wait |-> SleepAfter(reply.kind, loc.retry_count)]
           pace == Slept(Requested(loc.pace, "detail"), 2 * attempt.wait)
       IN  IF reply.kind = "200"
           THEN /\ self' = counted
                /\ loc' = [loc EXCEPT !.response = reply.kind,
                                      !.hist = Append(@, attempt),
                                      !.pace = pace,
                                      !.company_details = reply.company]
                /\ pc' = "classify"
           ELSE IF Retries(reply.kind, loc.retry_count)
           THEN /\ self' = counted
                /\ loc' = [loc EXCEPT !.response = reply.kind,
                                      !.hist = Append(@, attempt),
                                      !.pace = pace,
                                      !.retry_count = @ + 1]
                /\ pc' = "fetch"
           ELSE /\ self' = IF LogsError(reply.kind, loc.retry_count)
                           THEN [counted EXCEPT !.errors =
                                    Append(@, ErrorRecord(ErrorType(reply.kind),
                                                          company))]
                           ELSE counted
                /\ loc' = [loc EXCEPT !.response = reply.kind,
                                      !.hist = Append(@, attempt),
                                      !.pace = pace,
                                      !.company_details = JNull]
                /\ pc' = "classify"
    /\ UNCHANGED <<ckpt, saved, cl>>

(***************************************************************************)
(* search_companies: classification of the fetched company                 *)
(***************************************************************************)
\* mutant of Accepted: the industry count is left as it was
Accepted_NoIndustryCount(s, company, keyword, industry_category, asset_info) ==
    [s EXCEPT
        !.companies_with_balance_sheet = @ + 1,
        !.results = Append(@, CompanyInfo(company, keyword,
                                          industry_category, asset_info))]

\* mutant of Accepted: the balance-sheet counter is left as it was
Accepted_NotCounted(s, company, keyword, industry_category, asset_info) ==
    [s EXCEPT
        !.results = Append(@, CompanyInfo(company, keyword,
                                          industry_category, asset_info)),
        !.industry_counts =
            [i \in DOMAIN @ \cup {industry_category} |->
                IF i = industry_category
                THEN IndustryCount(s, industry_category) + 1
                ELSE @[i]]]

\* the acceptance branch: counter, append, industry count
Accepted(s, company, keyword, industry_category, asset_info) ==
    [s EXCEPT
        !.companies_with_balance_sheet = @ + 1,
        !.results = Append(@, CompanyInfo(company, keyword,
                                          industry_category, asset_info)),
        !.industry_counts =
            [i \in DOMAIN @ \cup {industry_category} |->
                IF i = industry_category
                THEN IndustryCount(s, industry_category) + 1
                ELSE @[i]]]

\* mutant of CheckpointDue: twice the interval
CheckpointDue_Double(s) == Len(s.results) % (2 * CheckpointEvery) = 0

\* `if len(self.results) % 10 == 0`
CheckpointDue(s) == Len(s.results) % CheckpointEvery = 0

\* mutant of NoFinancials: the company is counted as one with financials too
NoFinancials_AlsoWithFinancials(s) ==
    [s EXCEPT !.companies_without_financials = @ + 1,
              !.companies_with_financials = @ + 1]

\* the `else` of `if has_financials`
NoFinancials(s) == [s EXCEPT !.companies_without_financials = @ + 1]

\* the fields after the classification of one fetched company: the branches
\* of `if has_financials` / `if has_balance_sheet` (when the classifier
\* raises, the fields as the exception leaves them)
Classified(s, company, keyword, industry_category, company_details) ==
    LET fin == has_financial_data(company_details)
        bs == has_balance_sheet_data(fin.data)
        withfin == [s EXCEPT !.companies_with_financials = @ + 1]
    IN  IF ~fin.has THEN NoFinancials(s)
        ELSE IF bs.raised THEN withfin
        ELSE IF ~bs.has
        THEN [withfin EXCEPT !.companies_without_balance_sheet = @ + 1]
        ELSE Accepted(withfin, company, keyword, industry_category, bs.info)

\* the rest of the item's loop body after the fetch returned: the delay,
\* then the classification
ClassifyItem(outcome) ==
    /\ pc = "classify"
    /\ LET fin == has_financial_data(loc.company_details)
           bs == has_balance_sheet_data(fin.data)
           accepted == Classified(self, loc.company, CurKeyword, CurIndustry,
                                  loc.company_details)
           NextItem == /\ pc' = "item"
                       /\ loc' = [loc EXCEPT !.idx = @ + 1,
                                             !.company = NoCompany,
                                             !.retry_count = 0,
                                             !.response = "",
                                             !.hist = <<>>, !.rc0 = 0,
                                             !.company_details = JNull,
                                             !.pace = Slept(@, detail_delay)]
       IN  IF ~fin.has
           THEN /\ self' = accepted
                /\ NextItem
                /\ UNCHANGED <<ckpt, saved>>
           ELSE IF bs.raised
           THEN /\ self' = accepted
                /\ pc' = "crashed"
                /\ loc' = [loc EXCEPT !.pace = Slept(@, detail_delay)]
                /\ UNCHANGED <<ckpt, saved>>
           ELSE IF ~bs.has
           THEN /\ self' = accepted
                /\ NextItem
                /\ UNCHANGED <<ckpt, saved>>
           ELSE /\ self' = accepted
                /\ NextItem
                /\ IF CheckpointDue(accepted)
                   THEN /\ ckpt' = save_checkpoint(accepted, ckpt, outcome)
                        /\ saved' = SavedAfter(accepted, outcome)
                   ELSE UNCHANGED <<ckpt, saved>>
    /\ UNCHANGED <<attempts, cl>>

Next ==
    \/ StartFresh
    \/ \E file \in PriorFiles : LoadCheckpoint(file)
    \/ RunKeyword
    \/ IndustryEnd
    \/ \E outcome \in SaveOutcomes : FinalSave(outcome)
    \/ SearchEntry
    \/ PageExit
    \/ \E reply \in SearchReplies : SearchRequest(reply)
    \/ ItemLoopEnd
    \/ \E company \in Summaries : ItemStart(company)
    \/ \E reply \in DetailReplies : FetchAttempt(reply)
    \/ \E outcome \in SaveOutcomes : ClassifyItem(outcome)

Spec == Init /\ [][Next]_vars

(***************************************************************************)
(* The classifier on its own: both stages applied to every detail record   *)
(* of the bounded universe, and stage B applied to the record directly.    *)
(***************************************************************************)
InitClassify ==
    /\ \/ cl = [pc |-> "input", detail |-> JNull]
       \/ \E S \in SectionSets : \E f \in [S -> SectionVals] :
             cl = [pc |-> "input", detail |-> JDict(f)]
    /\ self = NewFinder("production", 0, 0)
    /\ pc = "classifier"
    /\ loc = NoLoc
    /\ ckpt = NoFile
    /\ attempts = 0
    /\ saved = NotSaved

\* `has_financials, financial_data = self.has_financial_data(company_details)`
StageA ==
    /\ cl.pc = "input"
    /\ cl' = [pc |-> "A", detail |-> cl.detail,
              fin |-> has_financial_data(cl.detail)]
    /\ UNCHANGED <<self, pc, loc, ckpt, attempts, saved>>

\* `if has_financials: ... self.has_balance_sheet_data(financial_data)`
StageB ==
    /\ cl.pc = "A"
    /\ cl.fin.has
    /\ cl' = [pc |-> "B", detail |-> cl.detail, arg |-> cl.fin.data,
              bs |-> has_balance_sheet_data(cl.fin.data)]
    /\ UNCHANGED <<self, pc, loc, ckpt, attempts, saved>>

\* has_balance_sheet_data called on a mapping as it is
DirectB ==
    /\ cl.pc = "input"
    /\ cl.detail # JNull
    /\ cl' = [pc |-> "B", detail |-> cl.detail, arg |-> cl.detail,
              bs |-> has_balance_sheet_data(cl.detail)]
    /\ UNCHANGED <<self, pc, loc, ckpt, attempts, saved>>

\* the branches of lines 453-502 taken for the record: the counters of a
\* new finder after the record of company c1 was classified
Tally ==
    /\ cl.pc = "A"
    /\ cl' = [pc |-> "T", detail |-> cl.detail, fin |-> cl.fin,
              bs |-> has_balance_sheet_data(cl.fin.data)]
    /\ self' = Classified(self, Summary("c1"), "accounting", "Accounting",
                          cl.detail)
    /\ UNCHANGED <<pc, loc, ckpt, attempts, saved>>

NextClassify == StageA \/ StageB \/ DirectB \/ Tally

SpecClassify == InitClassify /\ [][NextClassify]_vars

(***************************************************************************)
(* The checkpoint store on its own: save_checkpoint on a finder in any     *)
(* state of a bounded universe, then load_checkpoint of the file by the    *)
(* new finder of a later process.                                          *)
(***************************************************************************)
\* values drawn for each of the five counters
CounterVals == {0, 1}

CounterNames ==
    {"companies_checked", "companies_with_financials",
     "companies_without_financials", "companies_with_balance_sheet",
     "companies_without_balance_sheet"}

SomeRecords ==
    {CompanyInfo(Summary("c1"), "accounting", "Accounting",
                 [AssetInfo0 EXCEPT !.has_current_assets = TRUE,
                                    !.current_assets_entries = 1]),
     CompanyInfo(Summary("c1"), "vending", "ATM_Vending",
                 [AssetInfo0 EXCEPT !.has_fixed_assets = TRUE,
                                    !.fixed_assets_entries = 2])}

InitCheckpoint ==
    /\ \E mode \in Modes, n \in 0..MaxQuota, rc \in 0..MaxRequests,
          c \in [CounterNames -> CounterVals],
          S \in SUBSET {Industries[i] : i \in 1..Len(Industries)} :
          \E res \in [1..n -> SomeRecords], ic \in [S -> 1..MaxQuota] :
             self = [NewFinder(mode, MaxQuota, MaxQuota) EXCEPT
                        !.results = res,
                        !.request_count = rc,
                        !.industry_counts = ic,
                        !.companies_checked = c["companies_checked"],
                        !.companies_with_financials =
                            c["companies_with_financials"],
                        !.companies_without_financials =
                            c["companies_without_financials"],
                        !.companies_with_balance_sheet =
                            c["companies_with_balance_sheet"],
                        !.companies_without_balance_sheet =
                            c["companies_without_balance_sheet"]]
    /\ ckpt \in PriorFiles
    /\ pc = "ck_start"
    /\ loc = NoLoc
    /\ attempts = 0
    /\ saved = NotSaved
    /\ cl = NoClassifier

\* save_checkpoint on the finder as it stands
CkSave(outcome) ==
    /\ pc = "ck_start"
    /\ ckpt' = save_checkpoint(self, ckpt, outcome)
    /\ saved' = SavedAfter(self, outcome)
    /\ pc' = "ck_saved"
    /\ UNCHANGED <<self, loc, attempts, cl>>

\* a later process: a new finder of the same mode loads the file
CkLoad ==
    /\ pc = "ck_saved"
    /\ self' = load_checkpoint(
                  NewFinder(self.mode, self.target_per_industry,
                            self.max_total_companies), ckpt)
    /\ loc' = [loc EXCEPT !.loaded = LoadSucceeds(ckpt)]
    /\ pc' = "ck_loaded"
    /\ UNCHANGED <<ckpt, attempts, saved, cl>>

NextCheckpoint == (\E outcome \in SaveOutcomes : CkSave(outcome)) \/ CkLoad

SpecCheckpoint == InitCheckpoint /\ [][NextCheckpoint]_vars

(***************************************************************************)
(* Properties                                                              *)
(***************************************************************************)
RunFromEmpty == pc \notin {"main", "classifier"} /\ ~loc.loaded

ResultsOf(s, industry_category) ==
    {k \in 1..Len(s.results) :
        s.results[k].Industry_Category = industry_category}

IndustrySet == {Industries[i] : i \in 1..Len(Industries)}

\* C1: the HTTP attempts issued by a run (search pages and detail fetches,
\* every retry included) never exceed the request budget max_requests.
C1_AttemptsWithinBudget == attempts <= self.max_requests

\* C2: in quota mode a run started from empty state never holds more than
\* target_per_industry accepted records of one industry, and a detail fetch
\* is in progress only while the count of its industry is below the target.
C2_IndustryQuotaRespected ==
    self.mode = "test" /\ pc # "main" =>
        /\ pc = "fetch" =>
              IndustryCount(self, CurIndustry) < self.target_per_industry
        /\ RunFromEmpty =>
              \A i \in IndustrySet :
                  /\ Cardinality(ResultsOf(self, i)) <= self.target_per_industry
                  /\ IndustryCount(self, i) = Cardinality(ResultsOf(self, i))

\* C2 witness: quota mode, empty start, the target is reached while an item
\* of the page in hand is still unprocessed.
C2_Witness ==
    /\ self.mode = "test" /\ RunFromEmpty
    /\ pc = "item" /\ loc.idx <= loc.n_companies
    /\ IndustryCount(self, CurIndustry) = self.target_per_industry
    /\ Len(self.results) < self.max_total_companies

\* C3: with max_total_companies set, a detail fetch is in progress only
\* while len(results) is below it, and in a run started from empty state
\* len(results) never exceeds it.
C3_TotalLimitRespected ==
    self.max_total_companies # 0 /\ pc # "main" =>
        /\ pc = "fetch" => Len(self.results) < self.max_total_companies
        /\ RunFromEmpty => Len(self.results) <= self.max_total_companies

\* C3 witness: the total limit is reached, below the industry target, while
\* an item of the page in hand is still unprocessed.
C3_Witness ==
    /\ self.max_total_companies # 0 /\ RunFromEmpty
    /\ pc = "item" /\ loc.idx <= loc.n_companies
    /\ Len(self.results) = self.max_total_companies
    /\ IndustryCount(self, CurIndustry) < self.target_per_industry

\* C4: request_count equals the number of HTTP attempts issued so far (in a
\* run that loaded no checkpoint, where both start at 0).
C4_CountEqualsAttempts ==
    RunFromEmpty => self.request_count = attempts
\* C5: a finder restored by load_checkpoint from the file a save_checkpoint
\* wrote holds the results, request_count, the five counters and the
\* industry_counts the saving finder held at the time of the save.
C5_CheckpointRoundTrip ==
    pc = "ck_loaded" /\ saved.set =>
        /\ loc.loaded
        /\ self.results = saved.s.results
        /\ self.request_count = saved.s.request_count
        /\ \A c \in CounterNames : self[c] = saved.s[c]
        /\ self.industry_counts = saved.s.industry_counts

\* C5 witness: a written checkpoint of a finder with results, requests and
\* industry counts has been loaded.
C5_Witness ==
    /\ pc = "ck_loaded" /\ saved.set
    /\ Len(saved.s.results) = 2
    /\ saved.s.request_count > 0
    /\ saved.s.companies_checked > 0
    /\ DOMAIN saved.s.industry_counts # {}

\* the mappings has_balance_sheet_data is said to scan: financial_summary,
\* and each of accounts, latest_accounts, financials as one mapping or as a
\* list of period mappings
ScannedMappings(financial_data) ==
    LET d == financial_data.v
        whole == {d[k] : k \in {j \in DOMAIN d \cap KnownKeys :
                                    d[j].t = "dict"}}
        lists == {k \in DOMAIN d \cap {"accounts", "latest_accounts",
                                       "financials"} : d[k].t = "list"}
        items == UNION {{d[k].v[i] : i \in 1..Len(d[k].v)} : k \in lists}
    IN  whole \cup {m \in items : m.t = "dict"}

\* lengths of the non-empty sequences held under asset key a
SeqLens(financial_data, a) ==
    LET holders == {m \in ScannedMappings(financial_data) :
                       a \in DOMAIN m.v}
        seqs == {m \in holders : m.v[a].t = "list"}
    IN  {Len(m.v[a].v) : m \in seqs} \ {0}

MaxOf(S) == IF S = {} THEN 0 ELSE CHOOSE x \in S : \A y \in S : y <= x

\* what the caller reads from the returned pair
MarkedPresent(bs, a) ==
    bs.has /\ (IF a = "current_assets" THEN bs.info.has_current_assets
                                       ELSE bs.info.has_fixed_assets)

EntryCount(bs, a) ==
    IF ~bs.has THEN 0
    ELSE IF a = "current_assets" THEN bs.info.current_assets_entries
                                 ELSE bs.info.fixed_assets_entries

\* C6: for each asset type the entry count returned by
\* has_balance_sheet_data is the maximum length of that type's non-empty
\* sequences over all scanned sections.
C6_EntriesAreMaximum ==
    cl.pc = "B" /\ ~cl.bs.raised =>
        \A a \in AssetKeys :
            EntryCount(cl.bs, a) = MaxOf(SeqLens(cl.arg, a))

ThreeNulls ==
    JDict([k \in {"financial_summary"} |->
              JDict([j \in {"current_assets"} |->
                        JList(<<JNull, JNull, JNull>>)])])

\* C7: has_balance_sheet_data marks an asset type present exactly when some
\* scanned section holds a non-null, non-empty sequence under its key,
\* whatever the elements; financial_summary.current_assets of three nulls
\* gives has_current_assets and current_assets_entries = 3.
C7_PresentIffNonEmptySequence ==
    cl.pc = "B" /\ ~cl.bs.raised =>
        /\ \A a \in AssetKeys :
               MarkedPresent(cl.bs, a) <=> SeqLens(cl.arg, a) # {}
        /\ cl.arg = ThreeNulls =>
               /\ MarkedPresent(cl.bs, "current_assets")
               /\ EntryCount(cl.bs, "current_assets") = 3
               /\ ~MarkedPresent(cl.bs, "fixed_assets")

\* C7 witness: the classifier has returned for the record whose
\* financial_summary.current_assets is three nulls.
C7_Witness ==
    cl.pc = "B" /\ ~cl.bs.raised /\ cl.arg = ThreeNulls /\ cl.bs.has

\* a value that is null, 0, '', [] or {}
IsEmptyValue(x) ==
    \/ x.t = "null"
    \/ x.t = "num" /\ x.v = 0
    \/ x.t = "str" /\ x.v = ""
    \/ x.t = "list" /\ x.v = <<>>
    \/ x.t = "dict" /\ DOMAIN x.v = {}

NonEmptyKnownKeys(detail) ==
    IF detail.t # "dict" THEN {}
    ELSE {k \in KnownKeys \cap DOMAIN detail.v : ~IsEmptyValue(detail.v[k])}

\* C8: has_financial_data returns (false, None) when none of the four known
\* keys holds a non-empty value (a key present with a falsy value does not
\* count); otherwise true with exactly the known keys whose value is
\* non-empty as evidence.
C8_FinancialEvidence ==
    cl.pc = "A" =>
        LET ne == NonEmptyKnownKeys(cl.detail)
        IN  IF ne = {}
            THEN cl.fin = [has |-> FALSE, data |-> JNull]
            ELSE /\ cl.fin.has
                 /\ cl.fin.data = JDict([k \in ne |-> cl.detail.v[k]])

\* C8 witness: a record with one known key holding a falsy value and another
\* holding a non-empty one has been classified.
C8_Witness ==
    /\ cl.pc = "A"
    /\ cl.detail.t = "dict"
    /\ DOMAIN cl.detail.v = {"accounts", "financials"}
    /\ IsEmptyValue(cl.detail.v["accounts"])
    /\ ~IsEmptyValue(cl.detail.v["financials"])
    /\ cl.fin.has

\* the step on which fetch_company_details returns None
FetchReturnsNone ==
    pc = "fetch" /\ pc' = "classify" /\ loc'.company_details = JNull

\* C9 as stated: every detail fetch that returns None, exhausted 429 retries
\* included, appends an ErrorRecord for that company to errors.
C9_EveryFailureLogged ==
    [][FetchReturnsNone =>
          /\ Len(self'.errors) = Len(self.errors) + 1
          /\ self'.errors[Len(self'.errors)].company_number =
                 loc.company.company_number]_vars

\* C9 amended: a detail fetch that ends on a 404, on another non-200 status
\* or a timeout after the retries, or on a transport exception appends one
\* ErrorRecord for that company; one that ends on exhausted 429 retries
\* appends none; in every case the company is not appended to results and
\* the run goes on with the next item.
C9_FailureLoggedExcept429 ==
    [][/\ FetchReturnsNone =>
             self'.errors =
                 IF loc'.response = "429" THEN self.errors
                 ELSE Append(self.errors,
                             ErrorRecord(ErrorType(loc'.response),
                                         loc.company))
       /\ pc = "classify" /\ loc.company_details = JNull =>
             /\ self'.results = self.results
             /\ self'.errors = self.errors
             /\ pc' = "item"
             /\ loc'.idx = loc.idx + 1]_vars

\* C9 witness: the first item's fetch failed and was logged, the company was
\* left out and the loop stands at the second item.
C9_Witness ==
    /\ pc = "item" /\ loc.idx = 2 /\ ~loc.loaded
    /\ Len(self.errors) = 1
    /\ self.errors[1].company_number = "c1"
    /\ self.results = <<>>
    /\ self.companies_checked = 1
    /\ self.companies_without_financials = 1

\* C10 as stated: a search page answered with 429 is retried at most
\* max_retries times, so it is requested at most max_retries + 1 times.
C10_SearchRetriesCapped == loc.page_tries <= max_retries + 1

\* C10 amended: a search page answered with 429 is requested again after a
\* wait, with no retry counter and no RateLimited failure: the loop returns
\* to the checks before the page request, every such request is counted, and
\* the requests of one page are bounded by the request budget only.
C10_SearchRetriesWithinBudget ==
    pc \notin {"main", "classifier"} =>
        /\ loc.page_tries <= self.max_requests
        /\ loc.page_tries <= self.request_count
        /\ loc.search_status = "429" => pc = "page"

\* C10 witness: the same page has been answered with 429 as many times as
\* the budget has requests.
C10_Witness ==
    /\ pc = "page"
    /\ loc.search_status = "429"
    /\ loc.page_tries = self.max_requests
    /\ loc.page_tries > max_retries + 1
\* the attempts of the fetch in hand were all answered 429
Only429(hist) == \A i \in 1..Len(hist) : hist[i].kind = "429"

\* a step of the detail fetch, and the reply it met
FetchStep == pc = "fetch" /\ Len(loc'.hist) = Len(loc.hist) + 1

LastKind == loc'.hist[Len(loc'.hist)].kind

LastWait == loc'.hist[Len(loc'.hist)].wait

\* the payload is classified; a financial_summary that is not a mapping is
\* left to the claims on payloads that make the classifier raise
Classifiable(details) ==
    details.t = "dict" /\
    ("financial_summary" \in DOMAIN details.v =>
        details.v["financial_summary"].t = "dict")

\* C11: a detail fetch answered by k 429s (1 <= k <= max_retries) and then a
\* 200 waits before each retry, returns the payload, has raised request_count
\* by k + 1 and appended no error; the payload is then classified on its
\* content alone: counted without financials, without balance sheet, or
\* accepted with one record appended.
C11_RetryThenSuccess ==
    [][/\ FetchStep /\ LastKind = "429" /\ pc' = "fetch"
            /\ Only429(loc.hist) =>
             /\ LastWait > 0
             /\ self'.request_count = loc.rc0 + Len(loc'.hist)
             /\ self'.errors = self.errors
       /\ FetchStep /\ LastKind = "200" /\ Only429(loc.hist)
            /\ Len(loc.hist) >= 1 =>
             /\ Len(loc.hist) <= max_retries
             /\ pc' = "classify"
             /\ loc'.company_details \in CrawlDetails
             /\ self'.request_count = loc.rc0 + Len(loc.hist) + 1
             /\ self'.errors = self.errors
             /\ self'.results = self.results
       /\ pc = "classify" /\ loc.response = "200"
            /\ Classifiable(loc.company_details) =>
             LET d == loc.company_details
                 marked == \E a \in AssetKeys : SeqLens(d, a) # {}
             IN  /\ pc' = "item" /\ loc'.idx = loc.idx + 1
                 /\ self'.request_count = self.request_count
                 /\ self'.errors = self.errors
                 /\ IF NonEmptyKnownKeys(d) = {}
                    THEN /\ self'.results = self.results
                         /\ self'.companies_without_financials =
                                self.companies_without_financials + 1
                    ELSE IF ~marked
                    THEN /\ self'.results = self.results
                         /\ self'.companies_without_balance_sheet =
                                self.companies_without_balance_sheet + 1
                    ELSE /\ Len(self'.results) = Len(self.results) + 1
                         /\ self'.results[Len(self'.results)].Company_Number =
                                loc.company.company_number]_vars

\* C11 witness: max_retries 429s and then a 200 with a payload holding
\* current assets; the payload stands before the classifier.
C11_Witness ==
    /\ pc = "classify"
    /\ Len(loc.hist) = max_retries + 1
    /\ Only429(SubSeq(loc.hist, 1, max_retries))
    /\ loc.hist[max_retries + 1].kind = "200"
    /\ loc.hist[1].wait = 2 /\ loc.hist[2].wait = 4
    /\ self.request_count = loc.rc0 + max_retries + 1
    /\ SeqLens(loc.company_details, "current_assets") # {}

\* C12: a detail fetch issues at most max_retries + 1 attempts whatever the
\* mix of 429, other statuses and timeouts; the wait after a 429 met with r
\* retries used is backoff_time * 2^r; 429 through the last attempt returns
\* None (the loop reaches the classification with no payload).
C12_AttemptsAndBackoff ==
    /\ Len(loc.hist) <= max_retries + 1
    /\ \A i \in 1..Len(loc.hist) :
          loc.hist[i].kind = "429" =>
              loc.hist[i].wait = 2 * Pow2(i - 1)
    /\ Len(loc.hist) = max_retries + 1 /\ loc.response = "429" =>
          pc = "classify" /\ loc.company_details = JNull

\* C12 witness: a timeout, then 429 to the last attempt.
C12_Witness ==
    /\ pc = "classify"
    /\ Len(loc.hist) = max_retries + 1
    /\ loc.hist[1].kind = "timeout"
    /\ loc.hist[2].kind = "429" /\ loc.hist[2].wait = 4
    /\ loc.hist[3].kind = "429" /\ loc.hist[3].wait = 8
    /\ loc.company_details = JNull

\* C13: a detail fetch answered 404 is not retried: it appends exactly one
\* 404_Not_Found record for the company and returns None at once.
C13_NotFoundNotRetried ==
    [][FetchStep /\ LastKind = "404" =>
          /\ pc' = "classify"
          /\ loc'.company_details = JNull
          /\ LastWait = 0
          /\ self'.errors =
                 Append(self.errors,
                        [error_type |-> "404_Not_Found",
                         jurisdiction |-> loc.company.jurisdiction_code,
                         company_number |-> loc.company.company_number])]_vars

\* C13 witness: the first attempt of a fetch met a 404.
C13_Witness ==
    /\ pc = "classify"
    /\ Len(loc.hist) = 1 /\ loc.hist[1].kind = "404"
    /\ Len(self.errors) = 1
    /\ self.errors[1].error_type = "404_Not_Found"

KindOfFailure(kind) == IF kind = "500" THEN "HTTP_500" ELSE "Timeout"

\* C14: an attempt that ends in a non-200 status other than 429/404, or in a
\* timeout, is retried after the fixed backoff while fewer than max_retries
\* retries were used, appending no record; with the retries used up it
\* appends exactly one record (HTTP_<status> or Timeout) and returns None.
C14_RetriedThenLogged ==
    [][FetchStep /\ LastKind \in {"500", "timeout"} =>
          IF Len(loc.hist) < max_retries
          THEN /\ pc' = "fetch"
               /\ LastWait = 2
               /\ self'.errors = self.errors
          ELSE /\ Len(loc.hist) = max_retries
               /\ pc' = "classify"
               /\ loc'.company_details = JNull
               /\ self'.errors =
                      Append(self.errors,
                             [error_type |-> KindOfFailure(LastKind),
                              jurisdiction |-> loc.company.jurisdiction_code,
                              company_number |->
                                  loc.company.company_number])]_vars

\* C14 witness: a status error, a timeout and a status error; one record.
C14_Witness ==
    /\ pc = "classify"
    /\ Len(loc.hist) = max_retries + 1
    /\ loc.hist[1].kind = "500" /\ loc.hist[1].wait = 2
    /\ loc.hist[2].kind = "timeout" /\ loc.hist[2].wait = 2
    /\ loc.hist[3].kind = "500" /\ loc.hist[3].wait = 0
    /\ Len(self.errors) = 1
    /\ self.errors[1].error_type = "HTTP_500"

\* C15: an attempt that fails with a transport exception other than a
\* timeout is never retried, whatever the retries used: exactly one
\* Request_Exception record is appended and None is returned.
C15_ExceptionNotRetried ==
    [][FetchStep /\ LastKind = "exception" =>
          /\ pc' = "classify"
          /\ loc'.company_details = JNull
          /\ LastWait = 0
          /\ self'.errors =
                 Append(self.errors,
                        [error_type |-> "Request_Exception",
                         jurisdiction |-> loc.company.jurisdiction_code,
                         company_number |-> loc.company.company_number])]_vars

\* C15 witness: a transport exception on the retry after a 429.
C15_Witness ==
    /\ pc = "classify"
    /\ Len(loc.hist) = 2
    /\ loc.hist[1].kind = "429" /\ loc.hist[2].kind = "exception"
    /\ Len(self.errors) = 1
    /\ self.errors[1].error_type = "Request_Exception"
\* the three stopping conditions, read off the fields
StopTotal ==
    self.max_total_companies # 0
    /\ Len(self.results) >= self.max_total_companies

StopBudget == self.request_count >= self.max_requests

StopIndustry ==
    self.mode = "test"
    /\ IndustryCount(self, Industries[loc.ind]) >= self.target_per_industry

\* C16 as stated: when any of the three conditions holds before a keyword or
\* after an industry, run_search leaves both loops.
C16_AnyStopEndsRun ==
    [][/\ pc = "keyword" /\ (StopTotal \/ StopBudget \/ StopIndustry) =>
             pc' = "industry_end"
       /\ pc = "industry_end" /\ (StopTotal \/ StopBudget \/ StopIndustry) =>
             pc' = "final"]_vars

\* C16 amended: before each keyword the three conditions are checked and any
\* of them ends the keyword loop of the current industry; after each industry
\* the total-result quota and the request budget are checked and either ends
\* the industry loop, after which nothing is searched; the per-industry quota
\* ends the current industry only and the run goes on with the next one.
C16_StopsByScope ==
    [][/\ pc = "keyword" /\ (StopTotal \/ StopBudget \/ StopIndustry) =>
             pc' = "industry_end"
       /\ pc = "industry_end" /\ (StopTotal \/ StopBudget) => pc' = "final"
       /\ pc = "industry_end" /\ ~(StopTotal \/ StopBudget)
            /\ loc.ind < Len(Industries) =>
             pc' = "keyword" /\ loc'.ind = loc.ind + 1 /\ loc'.kw = 1
       /\ pc' = "search" =>
             /\ pc = "keyword"
             /\ ~(StopTotal \/ StopBudget \/ StopIndustry)
             /\ self' = self
       /\ pc \in {"final", "done"} => pc' \in {"final", "done"}]_vars

\* C16 witness: the first industry met its quota and the run is searching the
\* second one.
C16_Witness ==
    /\ pc = "search" /\ loc.ind = 2 /\ ~loc.loaded
    /\ self.mode = "test"
    /\ IndustryCount(self, Industries[1]) >= self.target_per_industry
    /\ ~StopTotal /\ ~StopBudget

\* the fields a checkpoint is to hold
HoldsFields(data, s) ==
    /\ data.results = s.results
    /\ data.request_count = s.request_count
    /\ \A c \in CounterNames : data[c] = s[c]
    /\ data.industry_counts = s.industry_counts

\* C17: run_search ends with one checkpoint save after the last change of
\* the fields and returns results; when that save wrote the file, the file
\* holds the returned results and the final counters.
C17_FinalCheckpoint ==
    [][/\ pc' = "done" =>
             /\ pc = "final"
             /\ self' = self
             /\ saved'.last \in SaveOutcomes
             /\ saved'.last = "written" =>
                    /\ ckpt'.kind = "json" /\ ckpt'.isdict
                    /\ HoldsFields(ckpt'.data, self')
       /\ pc = "final" => pc' = "done"
       /\ pc = "done" => UNCHANGED vars]_vars

\* C17 witness: a run that accepted a record off the checkpoint interval has
\* returned with its final save written.
C17_Witness ==
    /\ pc = "done"
    /\ saved.last = "written"
    /\ Len(self.results) % CheckpointEvery # 0
    /\ ckpt.data.results = self.results

\* the records a killed process recovers: those of the last checkpoint
\* written, or of the checkpoint the run was resumed from
RecoveryPoint ==
    IF saved.set THEN saved.s.results
    ELSE IF loc.loaded THEN PriorFinder.results
    ELSE <<>>

Unsaved == Len(self.results) - Len(RecoveryPoint)

\* C18 as stated: at every point of a run at most 9 records of results (one
\* fewer than the checkpoint interval) are absent from the checkpoint written
\* last.
C18_AtMostNineUnsaved ==
    pc \notin {"main", "classifier"} => Unsaved <= CheckpointEvery - 1

\* C18 amended: a save is attempted each time an append makes len(results) a
\* multiple of the interval; as long as the last attempted save wrote the
\* file, at most interval - 1 records are absent from the checkpoint written
\* last. A save that fails is swallowed and the run goes on, and the records
\* stay unsaved until a later save writes the file.
C18_UnsavedWhileSavesSucceed ==
    pc \notin {"main", "classifier"} =>
        /\ saved.last \in {"", "written"} =>
              /\ Unsaved <= CheckpointEvery - 1
              /\ saved.set =>
                     ckpt.kind = "json" /\ ckpt.data.results = saved.s.results
        /\ Len(RecoveryPoint) <= Len(self.results)
        /\ SubSeq(self.results, 1, Len(RecoveryPoint)) = RecoveryPoint

\* C18 witness: a periodic save wrote the file and one more record was
\* accepted since.
C18_Witness ==
    /\ pc \in {"item", "page", "keyword"}
    /\ saved.set /\ saved.last = "written"
    /\ Len(saved.s.results) = CheckpointEvery
    /\ Len(self.results) = CheckpointEvery + 1

IsCheckpointMapping(file) ==
    IF file.kind = "json" THEN file.isdict ELSE FALSE

\* C19: load_checkpoint on a missing file, invalid JSON or JSON that is not
\* a mapping returns the failure indicator and leaves results,
\* request_count, the counters and industry_counts as they were: the caller
\* goes on with the empty fields of its new finder.
C19_FailedLoadChangesNothing ==
    pc = "ck_loaded" /\ ~IsCheckpointMapping(ckpt) =>
        /\ ~loc.loaded
        /\ self.results = <<>>
        /\ self.request_count = 0
        /\ \A c \in CounterNames : self[c] = 0
        /\ DOMAIN self.industry_counts = {}
        /\ self.errors = <<>>

\* C19 witness: the file at hand is a JSON list and the load has returned.
C19_Witness ==
    /\ pc = "ck_loaded"
    /\ ckpt.kind = "json" /\ ~ckpt.isdict
    /\ ~loc.loaded

\* the stopping conditions and the end of the keyword list, at the keyword
\* the loop has moved to
KeywordLoopEnds ==
    \/ loc.kw > Len(Keywords(Industries[loc.ind]))
    \/ StopTotal \/ StopBudget \/ StopIndustry

\* C20: a search-page request that fails with a non-200 status other than
\* 429, or with a transport exception, ends search_companies for the keyword
\* only: nothing is logged or appended, and run_search searches the next
\* keyword unless the keyword list is exhausted or a stopping condition holds.
C20_SearchFailureEndsKeywordOnly ==
    [][/\ pc = "page" /\ loc'.search_status \in {"500", "exception"} =>
             /\ pc' = "keyword"
             /\ loc'.ind = loc.ind /\ loc'.kw = loc.kw + 1
             /\ self'.results = self.results
             /\ self'.errors = self.errors
             /\ self'.request_count \in
                    {self.request_count, self.request_count + 1}
       /\ pc = "keyword" /\ loc.search_status \in {"500", "exception"} =>
             /\ self' = self
             /\ loc'.ind = loc.ind /\ loc'.kw = loc.kw
             /\ pc' = IF KeywordLoopEnds THEN "industry_end"
                                         ELSE "search"]_vars

\* C20 witness: the first keyword's page request failed with a status error
\* and the run is searching the second keyword.
C20_Witness ==
    /\ pc = "keyword" /\ loc.ind = 1 /\ loc.kw = 2
    /\ loc.search_status = "500"
    /\ self.request_count = 1 /\ attempts = 1
    /\ ~KeywordLoopEnds

\* C21: a checked company whose detail record holds none of the four
\* financial keys with a non-empty value (or whose fetch returned nothing)
\* raises companies_without_financials by one, leaves the other acceptance
\* counters, companies_checked and industry_counts as they were, and is not
\* appended to results.
C21_NoFinancialsCounted ==
    [][pc = "classify" /\ NonEmptyKnownKeys(loc.company_details) = {} =>
          /\ self'.companies_without_financials =
                 self.companies_without_financials + 1
          /\ self'.companies_with_financials = self.companies_with_financials
          /\ self'.companies_with_balance_sheet =
                 self.companies_with_balance_sheet
          /\ self'.companies_without_balance_sheet =
                 self.companies_without_balance_sheet
          /\ self'.companies_checked = self.companies_checked
          /\ self'.industry_counts = self.industry_counts
          /\ self'.results = self.results]_vars

\* C21 witness: one company without financial keys has been counted and a
\* second one, whose only financial key holds an empty mapping, is in hand.
C21_Witness ==
    /\ pc = "classify"
    /\ loc.company_details = JDict([k \in {"accounts"} |-> JDict(EmptyFcn)])
    /\ self.companies_checked = 2
    /\ self.companies_without_financials = 1
    /\ self.companies_with_financials = 0
    /\ self.results = <<>>

\* C22: before each search-page request search_companies tests the total
\* quota, the industry quota (test mode) and the request budget; when one of
\* them holds the call returns to run_search without another request, search
\* or detail, and a page is requested only when none of them holds.
C22_ChecksBeforePage ==
    [][/\ pc = "page" /\ (StopTotal \/ StopBudget \/ StopIndustry) =>
             /\ pc' = "keyword" /\ loc'.kw = loc.kw + 1
             /\ attempts' = attempts
             /\ self' = self
       /\ pc = "search" /\ (StopTotal \/ StopBudget \/ StopIndustry) =>
             /\ pc' \in {"keyword", "page"}
             /\ attempts' = attempts
             /\ self' = self
       /\ pc \in {"search", "page"} /\ attempts' # attempts =>
             /\ pc = "page"
             /\ ~(StopTotal \/ StopBudget \/ StopIndustry)]_vars

\* C22 witness: the details of page 1 used up the request budget; the call
\* stands before the request of page 2 with no quota reached.
C22_Witness ==
    /\ pc = "page" /\ loc.page = 2
    /\ StopBudget /\ ~StopTotal /\ ~StopIndustry
    /\ self.mode = "test"
    /\ self.companies_checked >= 1

\* C23: no detail fetch is started for an item of a page when the total
\* quota, the industry quota or the request budget is already reached.
C23_NoFetchPastStop ==
    [][pc = "item" /\ pc' = "fetch" =>
          ~(StopTotal \/ StopBudget \/ StopIndustry)]_vars

\* C24: a 200 search response with an empty company list, or without
\* results / results.companies, ends search_companies for the keyword: the
\* request is counted, no other counter, result or error changes, and the
\* call returns to run_search without a detail fetch or another page request.
C24_EmptyPageEndsKeyword ==
    [][/\ pc = "page" /\ loc'.search_status \in {"malformed", "empty"} =>
             /\ pc' = "keyword"
             /\ loc'.ind = loc.ind /\ loc'.kw = loc.kw + 1
             /\ attempts' = attempts + 1
             /\ self' = [self EXCEPT !.request_count = @ + 1]
       /\ pc = "keyword" /\ loc.search_status \in {"malformed", "empty"} =>
             /\ self' = self
             /\ attempts' = attempts
             /\ loc'.ind = loc.ind /\ loc'.kw = loc.kw
             /\ pc' \in {"industry_end", "search"}]_vars

\* C24 witness: page 1 of the first keyword held a company that was checked,
\* page 2 came back empty and the call has returned.
C24_Witness ==
    /\ pc = "keyword" /\ loc.ind = 1 /\ loc.kw = 2
    /\ loc.search_status = "empty"
    /\ self.companies_checked = 1
    /\ self.request_count = 3 /\ attempts = 3
    /\ ~loc.loaded

\* C25: a search-result item whose jurisdiction or registration number is
\* absent or empty is skipped: no request is issued for it, companies_checked
\* and every other field of the finder stay as they were (no error record),
\* and the loop moves to the next item; a detail fetch is started only for
\* an item that has both.
C25_MalformedItemSkipped ==
    [][/\ pc = "item" /\ pc' = "item" =>
             /\ self' = self
             /\ attempts' = attempts
             /\ loc'.idx = loc.idx + 1
             /\ loc'.page = loc.page /\ loc'.n_companies = loc.n_companies
       /\ pc = "item" /\ pc' = "fetch" =>
             /\ loc'.company.jurisdiction_code # ""
             /\ loc'.company.company_number # ""
             /\ loc'.idx = loc.idx
             /\ self'.companies_checked = self.companies_checked + 1]_vars

\* C25 witness: the first item of a page of two was skipped; nothing was
\* counted or logged and the second item is next.
C25_Witness ==
    /\ pc = "item" /\ loc.idx = 2 /\ loc.n_companies = 2
    /\ loc.page = 1 /\ loc.ind = 1 /\ loc.kw = 1
    /\ self.companies_checked = 0
    /\ self.companies_without_financials = 0
    /\ self.errors = <<>>
    /\ attempts = 1 /\ self.request_count = 1

\* the page request of this step failed or brought no companies
PageRequestBroke ==
    pc = "page" /\ loc'.search_status \in {"exception", "500", "malformed",
                                          "empty"}

\* C26 as stated: search_companies returns only when the page in hand is the
\* last one reported, a stopping condition holds, or the page request failed
\* or brought an empty or malformed page; otherwise the next page is
\* requested; no page beyond the reported total_pages is requested.
C26_PaginationEndsOnlyAtTotal ==
    [][/\ pc \in {"page", "item"} /\ pc' = "keyword" =>
             \/ pc = "item" /\ loc.page >= loc.total_pages
             \/ StopTotal \/ StopBudget \/ StopIndustry
             \/ PageRequestBroke
       /\ pc = "item" /\ loc.idx > loc.n_companies
            /\ ~(StopTotal \/ StopIndustry) /\ loc.page < loc.total_pages =>
             pc' = "page" /\ loc'.page = loc.page + 1
       /\ pc = "page" /\ ~(StopTotal \/ StopBudget \/ StopIndustry) =>
             attempts' = attempts + 1
       /\ pc = "item" /\ pc' = "page" =>
             loc'.page = loc.page + 1 /\ loc'.page <= loc.total_pages]_vars

\* C26 amended: search_companies returns only when the page in hand is the
\* last one reported, max_pages pages have been requested for the keyword, a
\* stopping condition holds, or the page request failed or brought an empty
\* or malformed page; otherwise the next page is requested; no page beyond
\* the reported total_pages is requested.
C26_PaginationEndsAtTotalOrMaxPages ==
    [][/\ pc \in {"page", "item"} /\ pc' = "keyword" =>
             \/ pc = "item" /\ loc.page >= loc.total_pages
             \/ pc = "page" /\ loc.page > max_pages
             \/ StopTotal \/ StopBudget \/ StopIndustry
             \/ PageRequestBroke
       /\ pc = "item" /\ loc.idx > loc.n_companies
            /\ ~(StopTotal \/ StopIndustry) /\ loc.page < loc.total_pages =>
             pc' = "page" /\ loc'.page = loc.page + 1
       /\ pc = "page" /\ ~(StopTotal \/ StopBudget \/ StopIndustry)
            /\ loc.page <= max_pages =>
             attempts' = attempts + 1
       /\ pc = "page" /\ attempts' = attempts + 1 => loc.page <= max_pages
       /\ pc = "item" /\ pc' = "page" =>
             loc'.page = loc.page + 1 /\ loc'.page <= loc.total_pages]_vars

\* C26 witness: max_pages pages were requested for the keyword, the last one
\* reported more pages, and no stopping condition holds.
C26_Witness ==
    /\ pc = "page" /\ loc.page = max_pages + 1
    /\ ~(StopTotal \/ StopBudget \/ StopIndustry)
    /\ self.request_count = max_pages
    /\ ~loc.loaded

\* a requests.get is issued on this step
RequestStep == attempts' = attempts + 1

\* C27: every request that follows a detail fetch (the retries inside the
\* fetch apart) comes at least 1.5 s after it, and every search-page request
\* that follows another search-page request of the run, for the same keyword
\* or the next one, after a success or a failure, comes at least 2 s after it.
C27_PacingUnconditional ==
    [][/\ RequestStep /\ loc.pace.last = "detail"
            /\ ~(pc = "fetch" /\ loc.hist # <<>>) =>
             loc.pace.slept >= detail_delay
       /\ RequestStep /\ pc = "page" /\ loc.pace.last # "" =>
             loc.pace.since_search >= search_delay]_vars

\* C28: has_balance_sheet_data returns true with the asset evidence exactly
\* when has_current_assets or has_fixed_assets is marked, and (false, None)
\* when neither is; a company with financial data that it rejects raises
\* companies_without_balance_sheet by one and is not appended to results,
\* and one it accepts is appended.
C28_AcceptanceIsOr ==
    /\ cl.pc = "B" /\ ~cl.bs.raised =>
          /\ cl.bs.has <=> (cl.bs.marks.has_current_assets
                               \/ cl.bs.marks.has_fixed_assets)
          /\ cl.bs.has => cl.bs.info = cl.bs.marks
          /\ ~cl.bs.has => cl.bs.info = JNull
    /\ cl.pc = "T" /\ cl.fin.has /\ ~cl.bs.raised =>
          /\ self.companies_with_financials = 1
          /\ self.companies_without_financials = 0
          /\ IF cl.bs.marks.has_current_assets \/ cl.bs.marks.has_fixed_assets
             THEN /\ Len(self.results) = 1
                  /\ self.companies_with_balance_sheet = 1
                  /\ self.companies_without_balance_sheet = 0
             ELSE /\ self.results = <<>>
                  /\ self.industry_counts = [i \in {} |-> 0]
                  /\ self.companies_with_balance_sheet = 0
                  /\ self.companies_without_balance_sheet = 1

\* C28 witness: a record with financial data whose only asset key holds a
\* value that is not a non-empty sequence was rejected and counted.
C28_Witness ==
    /\ cl.pc = "T" /\ cl.fin.has /\ ~cl.bs.raised /\ ~cl.bs.has
    /\ \E m \in ScannedMappings(cl.fin.data) : "fixed_assets" \in DOMAIN m.v
    /\ self.companies_without_balance_sheet = 1
    /\ self.results = <<>>

\* C29: run_search terminates whatever the registry answers, and a run ends
\* only by its final checkpoint save and return: a run that can take no
\* further step (the registry still answering) has saved and returned.
C29_EndsOnlyAfterFinalSave ==
    attempts < MaxAttempts /\ ~ENABLED Next => pc = "done"

\* no item is being processed (the run has not been cut short inside one)
BetweenItems == pc \notin {"fetch", "classify", "crashed"}

\* C30: in a run started from empty state, whenever no item is in process,
\* companies_checked = companies_with_financials +
\* companies_without_financials and companies_with_financials =
\* companies_with_balance_sheet + companies_without_balance_sheet; a company
\* whose detail fetch returned nothing is counted in
\* companies_without_financials.
C30_CountersPartition ==
    /\ [](RunFromEmpty /\ BetweenItems =>
            /\ self.companies_checked =
                   self.companies_with_financials
                   + self.companies_without_financials
            /\ self.companies_with_financials =
                   self.companies_with_balance_sheet
                   + self.companies_without_balance_sheet)
    /\ [][pc = "classify" /\ loc.company_details = JNull =>
             /\ loc.response # "200"
             /\ self'.companies_without_financials =
                    self.companies_without_financials + 1
             /\ self'.companies_with_financials =
                    self.companies_with_financials]_vars

\* C30 witness: two companies were processed from empty state, one whose
\* fetch failed and was logged, one accepted.
C30_Witness ==
    /\ RunFromEmpty /\ pc = "item"
    /\ self.companies_checked = 2
    /\ Len(self.errors) = 1
    /\ self.companies_without_financials = 1
    /\ self.companies_with_balance_sheet = 1

\* the sum of industry_counts over the industries
RECURSIVE SumCounts(_, _)
SumCounts(s, S) ==
    IF S = {} THEN 0
    ELSE LET i == CHOOSE x \in S : TRUE
         IN  IndustryCount(s, i) + SumCounts(s, S \ {i})

\* C31: in a run started from empty state, whenever no item is in process,
\* len(results) equals the sum of industry_counts over all industries and
\* is at most companies_with_balance_sheet; during the traversal results
\* changes only by one record appended at its end, the records it held
\* staying as and where they were.
C31_ResultsAppendOnly ==
    /\ [](RunFromEmpty /\ BetweenItems =>
            /\ DOMAIN self.industry_counts \subseteq IndustrySet
            /\ Len(self.results) = SumCounts(self, IndustrySet)
            /\ Len(self.results) <= self.companies_with_balance_sheet)
    /\ [][pc # "main" =>
             \/ self'.results = self.results
             \/ /\ pc = "classify"
                /\ Len(self'.results) = Len(self.results) + 1
                /\ SubSeq(self'.results, 1, Len(self.results)) =
                       self.results]_vars

\* C31 witness: from empty state one record was appended for each of the
\* two industries.
C31_Witness ==
    /\ RunFromEmpty /\ pc = "item"
    /\ Len(self.results) = 2
    /\ \A i \in IndustrySet : IndustryCount(self, i) = 1
    /\ self.results[1].Industry_Category = Industries[1]
    /\ self.results[2].Industry_Category = Industries[2]

\* C32: results never holds two records for the same company (same
\* jurisdiction and registration number), whether the company came back
\* under several keywords or pages or the run resumed from a checkpoint.
C32_NoDuplicateRecords ==
    \A i, j \in 1..Len(self.results) :
        /\ self.results[i].Jurisdiction = self.results[j].Jurisdiction
        /\ self.results[i].Company_Number = self.results[j].Company_Number
        => i = j

\* C33: for every detail record whose values under the known keys are
\* mappings, sequences, scalars or null, has_financial_data followed by
\* has_balance_sheet_data returns a result and does not raise.
C33_ClassificationTotal == cl.pc = "T" => ~cl.bs.raised

====
